---- MODULE Spec2Model ----
(***************************************************************************)
(* The congestion control core of the QUIC sender: the CUBIC/Reno sender   *)
(* (internal/congestion/cubic_sender.go) with its curve                    *)
(* (internal/congestion/cubic.go), and the Hysteria rate controller        *)
(* (internal/congestion/hysteria.go), driven by one connection: the send   *)
(* loop that sends packets and reports acks, losses, timeouts, the RTT     *)
(* estimator and the connection counters.                                  *)
(*                                                                         *)
(* Byte counts are bytes.  Instants and durations are counted in units of  *)
(* 10 microseconds, so that one hour still is a 32-bit number.             *)
(***************************************************************************)
EXTENDS Integers, Sequences, FiniteSets, TLC

\* ------------------------------------------------------------------ bounds

\* Packets the connection sends (packet numbers 0 .. MaxPackets-1).
MaxPackets == 4
\* Times the clock advances.
MaxTicks == 1
\* Times the connection adds a chunk of sent bytes to its counters.
MaxSentChunks == 1
MaxRTTUpdates == 1
MaxCubicCalls == 5
MaxHysteriaCalls == 8
\* The runs of the Hysteria sender alone (RateSpec, DecaySpec): packets in
\* flight at a time, and packets sent in a run.
MaxInFlight == 1
MaxRatePackets == 9
MaxDecayPackets == 82

\* --------------------------------------------------------------- constants

Millisecond == 100
Second == 100000
Hour == 360000000

\* protocol.InvalidPacketNumber, protocol.MaxByteCount (the largest number
\* of the model stands for 1<<62 - 1: it is only compared, never computed with),
\* protocol.InitialPacketSize, protocol.MaxCongestionWindowPackets,
\* protocol.TimerGranularity.
InvalidPacketNumber == -1
MaxByteCount == 2147483647
InitialPacketSize == 1200
MaxCongestionWindowPackets == 10000
TimerGranularity == 100

\* cubic_sender.go
maxBurstPackets == 3
minCongestionWindowPackets == 2
initialCongestionWindow == 32
minBandwidthLimit == 5242880

\* cubic.go
cubeScale == 40
cubeCongestionWindowScale == 410
\* 1 << cubeScale / cubeCongestionWindowScale / maxDatagramSize
cubeFactor == 2234779
\* float32(0.7) = 11744051 / 2^24, float32(0.85) = 14260634 / 2^24
beta == 11744051
betaLastMax == 14260634

\* hysteria.go
rttWindowSize == 10
minStartBps == 131072

\* ----------------------------------------------------------------- helpers

Min(a, b) == IF a < b THEN a ELSE b
Max(a, b) == IF a > b THEN a ELSE b

RECURSIVE Pow2(_)
Pow2(n) == IF n = 0 THEN 1 ELSE 2 * Pow2(n - 1)

\* The number of bits of n > 0.
RECURSIVE BitLen(_)
BitLen(n) == IF n = 0 THEN 0 ELSE 1 + BitLen(n \div 2)

\* <<q, r>> with a * b = q * c + r and 0 <= r < c, computed without a number
\* above 2^31 (for c < 2^30 and q < 2^31): Go computes in 64 bits.
RECURSIVE MulDivQR(_, _, _)
MulDivQR(a, b, c) ==
    IF b = 0 THEN <<0, 0>>
    ELSE LET h == MulDivQR(a, b \div 2, c)
             d == 2 * h[2]
             q2 == 2 * h[1] + (d \div c)
             r2 == d % c
             s == r2 + (a % c)
         IN  IF b % 2 = 0 THEN <<q2, r2>>
             ELSE <<q2 + (a \div c) + (s \div c), s % c>>

\* floor(a * b / c)
MulDiv(a, b, c) == MulDivQR(a, b, c)[1]

\* ceil(a * b / c)
MulDivCeil(a, b, c) ==
    LET qr == MulDivQR(a, b, c) IN IF qr[2] = 0 THEN qr[1] ELSE qr[1] + 1

\* protocol.ByteCount(float32(a) * k) for 0 <= a < 2^24 and the float32
\* constant k = m / 2^24 in [0.5, 1): the exact product H + L / 2^24, rounded
\* to the 24 bits of a float32 (to nearest, ties to even), then truncated.
F32MulTrunc(a, m) ==
    LET a1 == a \div 4096
        a0 == a % 4096
        c1 == m \div 4096
        c0 == m % 4096
        mid == a1 * c0 + a0 * c1
        t == (mid % 4096) * 4096 + a0 * c0
        L == t % 16777216
        H == a1 * c1 + (mid \div 4096) + (t \div 16777216)
        s == 24 - BitLen(H)
        unit == Pow2(24 - s)
        M0 == H * Pow2(s) + (L \div unit)
        rem == L % unit
        up == IF 2 * rem > unit \/ (2 * rem = unit /\ (M0 % 2) = 1) THEN 1 ELSE 0
    IN  IF H = 0 THEN 0 ELSE (M0 + up) \div Pow2(s)

\* protocol.ByteCount(float64(a) * 0.7): float64(0.7) is 0.7 - 0.4 / 2^53, so
\* the product is below 7a/10 by 4a / (10 * 2^53).  Only when 7a/10 is a whole
\* number K does the rounding of the product decide the truncation: it rounds
\* up to K when the deficit is at most half a unit in the last place.
F64Mul07Trunc(a) ==
    LET K == (7 * a) \div 10
    IN  IF (7 * a) % 10 # 0 \/ a = 0 THEN K
        ELSE IF 4 * K <= 7 * Pow2(BitLen(K) - 1) THEN K ELSE K - 1

\* uint32(math.Cbrt(float64(f * d))): the largest k with k^3 <= f * d.
RECURSIVE CbrtSearch(_, _, _, _)
CbrtSearch(f, d, lo, hi) ==
    IF lo = hi THEN lo
    ELSE LET k == (lo + hi + 1) \div 2
             qr == MulDivQR(k * k, k, f)
         IN  IF qr[1] < d \/ (qr[1] = d /\ qr[2] = 0)
                THEN CbrtSearch(f, d, k, hi)
                ELSE CbrtSearch(f, d, lo, k - 1)

Cbrt(f, d) == CbrtSearch(f, d, 0, 40000)

\* ------------------------------------------------------------------- state

VARIABLES
    ctrl,       \* the controller the factory chose: "cubic" or "hysteria"
    status,     \* "running", or "panicked" once a call aborted the process
    op,         \* the last call made on the controller, with what it returned
    calls,      \* how many steps the run has taken
    \* the connection: clock, packets in flight, RTT estimator, counters
    now, ticks, nextPacketNumber, outstanding, sentChunks, rttUpdates, rttStats,
    connStats,
    penalty,    \* what the connection saw since the last loss over the threshold
    \* cubicSender
    reno, largestSentPacketNumber, largestAckedPacketNumber,
    largestSentAtLastCutback, lastCutbackExitedSlowstart, congestionWindow,
    slowStartThreshold, numAckedPackets, maxDatagramSize, lastState, qlogger,
    events,     \* the last two events the recorder (qlogger) was handed
    cubic,      \* the curve (Cubic)
    pacer,      \* the pacer
    \* hysteriaSender
    targetBps, currentBps, stableBps, maxDatagram, nextSendTime, rttHistory,
    rttIdx, maxRTT, rttCount

clockVars == <<now, ticks>>
packetVars == <<nextPacketNumber, outstanding, penalty>>
envVars == <<clockVars, sentChunks, rttUpdates, rttStats>>
connVars == <<envVars, packetVars, connStats>>
cubicVars == <<reno, largestSentPacketNumber, largestAckedPacketNumber,
               largestSentAtLastCutback, lastCutbackExitedSlowstart,
               congestionWindow, slowStartThreshold, numAckedPackets,
               maxDatagramSize, lastState, qlogger, events, cubic, pacer>>
hysteriaVars == <<targetBps, currentBps, stableBps, maxDatagram, nextSendTime,
                  rttHistory, rttIdx, maxRTT, rttCount>>
vars == <<ctrl, status, op, calls, connVars, cubicVars, hysteriaVars>>

\* The call recorded in op: the method, its packet number, byte count,
\* bytes in flight and flag arguments (0 / FALSE where it has none), and the
\* instant it returned (0 where it returns none).
Call(name, pn, bytes, inFlight, flag, ret) ==
    [name |-> name, pn |-> pn, bytes |-> bytes, inFlight |-> inFlight,
     flag |-> flag, ret |-> ret]

\* ------------------------------------------------------- the curve (cubic.go)

\* The const maxDatagramSize of cubic.go.
cubicMaxDatagramSize == InitialPacketSize

\* Cubic.Reset: the state NewCubic leaves, with numConnections = 1 (no code
\* calls SetNumConnections).
Cubic_Reset ==
    [epoch |-> 0, lastMaxCongestionWindow |-> 0, ackedBytesCount |-> 0,
     estimatedTCPcongestionWindow |-> 0, originPointCongestionWindow |-> 0,
     timeToOriginPoint |-> 0, lastTargetCongestionWindow |-> 0]

Cubic_OnApplicationLimited(c) == [c EXCEPT !.epoch = 0]

\* Cubic.CongestionWindowAfterPacketLoss: the curve after the call and the
\* window it returns.  beta() and betaLastMax() are the float32 constants for
\* one connection.
Cubic_CongestionWindowAfterPacketLoss(c, currentCongestionWindow) ==
    [cubic |-> [c EXCEPT
        !.lastMaxCongestionWindow =
            IF currentCongestionWindow + cubicMaxDatagramSize < c.lastMaxCongestionWindow
                THEN F32MulTrunc(currentCongestionWindow, betaLastMax)
                ELSE currentCongestionWindow,
        !.epoch = 0],
     cwnd |-> F32MulTrunc(currentCongestionWindow, beta)]

\* cubeCongestionWindowScale * offset^3 * maxDatagramSize >> cubeScale, that is
\* floor(15375 * offset^3 / 2^35), for offset < 26560 (above, the product
\* leaves the 64 bits of the code).
Cubic_Delta(offset) ==
    LET cube == MulDivQR(offset * offset, offset, 1048576)
        hi == MulDivQR((cubeCongestionWindowScale * cubicMaxDatagramSize) \div 32,
                       cube[1], 32768)
        lo == MulDiv((cubeCongestionWindowScale * cubicMaxDatagramSize) \div 32,
                     cube[2], 1048576)
    IN  hi[1] + ((hi[2] + lo) \div 32768)

\* Cubic.CongestionWindowAfterAck: the curve after the call and the window it
\* returns.  alpha() is 3 * (1 - beta) / (1 + beta) = 9/17 in float32; the
\* float32 quotient truncates to the same byte count as the exact one.
Cubic_CongestionWindowAfterAck(c, ackedBytes, currentCongestionWindow, delayMin, eventTime) ==
    LET fresh == c.epoch = 0
        epoch == IF fresh THEN eventTime ELSE c.epoch
        acked == IF fresh THEN ackedBytes ELSE c.ackedBytesCount + ackedBytes
        estimated == IF fresh THEN currentCongestionWindow
                     ELSE c.estimatedTCPcongestionWindow
        toOrigin ==
            IF ~fresh THEN c.timeToOriginPoint
            ELSE IF c.lastMaxCongestionWindow <= currentCongestionWindow THEN 0
            ELSE Cbrt(cubeFactor, c.lastMaxCongestionWindow - currentCongestionWindow)
        origin ==
            IF ~fresh THEN c.originPointCongestionWindow
            ELSE IF c.lastMaxCongestionWindow <= currentCongestionWindow
                THEN currentCongestionWindow
            ELSE c.lastMaxCongestionWindow
        \* int64(d / time.Microsecond) << 10 / (1000 * 1000)
        elapsedTime == MulDiv((eventTime + delayMin - epoch) * 10, 1024, 1000000)
        offset == IF toOrigin - elapsedTime < 0 THEN elapsedTime - toOrigin
                  ELSE toOrigin - elapsedTime
        deltaCongestionWindow == Cubic_Delta(offset)
        target == Min(IF elapsedTime > toOrigin
                         THEN origin + deltaCongestionWindow
                         ELSE origin - deltaCongestionWindow,
                      currentCongestionWindow + (acked \div 2))
        estimatedAfter ==
            estimated + ((acked * 9 * cubicMaxDatagramSize) \div (17 * estimated))
    IN  [cubic |-> [c EXCEPT
            !.epoch = epoch, !.ackedBytesCount = 0,
            !.estimatedTCPcongestionWindow = estimatedAfter,
            !.originPointCongestionWindow = origin,
            !.timeToOriginPoint = toOrigin,
            !.lastTargetCongestionWindow = target],
         cwnd |-> Max(target, estimatedAfter)]

\* ------------------------------------------------------------- the pacer

\* cubicSender.BandwidthEstimate: the window per smoothed RTT (bytes per
\* duration; BandwidthFromDelta), with TimerGranularity for no RTT sample.
cubicSender_BandwidthEstimate ==
    [bytes |-> congestionWindow,
     per |-> IF rttStats.smoothed = 0 THEN TimerGranularity ELSE rttStats.smoothed]

\* The bucket refilled at the bandwidth since the last update, capped at the
\* burst.
pacer_Budget(t) ==
    Min(maxBurstPackets * maxDatagramSize,
        pacer.budget + MulDiv(cubicSender_BandwidthEstimate.bytes,
                              t - pacer.lastUpdate,
                              cubicSender_BandwidthEstimate.per))

\* pacer.SentPacket: refill, then debit the bucket by the sent bytes.
pacer_SentPacket(sendTime, size) ==
    [budget |-> Max(0, pacer_Budget(sendTime) - size), lastUpdate |-> sendTime]

\* pacer.TimeUntilSend: the zero instant (send immediately) when a full
\* datagram fits the bucket, else the instant at which one will.
pacer_TimeUntilSend ==
    IF pacer.budget >= maxDatagramSize THEN 0
    ELSE pacer.lastUpdate
         + MulDivCeil(maxDatagramSize - pacer.budget,
                      cubicSender_BandwidthEstimate.per,
                      cubicSender_BandwidthEstimate.bytes)

\* ------------------------------------------------- cubicSender: the queries

cubicSender_maxCongestionWindow == maxDatagramSize * MaxCongestionWindowPackets
cubicSender_minCongestionWindow == maxDatagramSize * minCongestionWindowPackets
cubicSender_GetCongestionWindow == congestionWindow
cubicSender_CanSend(bytesInFlight) == bytesInFlight < cubicSender_GetCongestionWindow
cubicSender_InSlowStart == cubicSender_GetCongestionWindow < slowStartThreshold
cubicSender_HasPacingBudget(t) == pacer_Budget(t) >= maxDatagramSize

\* cubicSender.InRecovery, for a largest acked packet number.
InRecoveryWith(largestAcked) ==
    /\ largestAcked # InvalidPacketNumber
    /\ largestAcked <= largestSentAtLastCutback

cubicSender_InRecovery == InRecoveryWith(largestAckedPacketNumber)

\* The fields of newCubicSender that never change.
initialCongestionWindowBytes == initialCongestionWindow * InitialPacketSize
initialMaxCongestionWindow == MaxCongestionWindowPackets * InitialPacketSize

\* cubicSender.isCwndLimited with the slow-start test taken for the window as
\* a whole (bytesInFlight > congestionWindow/2 forgotten).
cubicSender_isCwndLimited_AnySlowStart(bytesInFlight) ==
    IF bytesInFlight >= cubicSender_GetCongestionWindow THEN TRUE
    ELSE \/ cubicSender_InSlowStart
         \/ cubicSender_GetCongestionWindow - bytesInFlight
                <= maxBurstPackets * maxDatagramSize

cubicSender_isCwndLimited(bytesInFlight) ==
    IF bytesInFlight >= cubicSender_GetCongestionWindow THEN TRUE
    ELSE \/ /\ cubicSender_InSlowStart
            /\ bytesInFlight > cubicSender_GetCongestionWindow \div 2
         \/ cubicSender_GetCongestionWindow - bytesInFlight
                <= maxBurstPackets * maxDatagramSize

\* The loss tolerance test with the gate never passing.
LossBelowTolerance_Never(totalLost, totalSent) == FALSE

\* float64(totalLost) / float64(totalSent) < lossToleranceThreshold (0.10);
\* the quotient of two counters of the model is never within a rounding of 0.1
\* without being 0.1.
LossBelowTolerance(totalLost, totalSent) == 10 * totalLost < totalSent

\* applyMinRateProtection with the absolute minimum alone (the 5 Mbps floor
\* forgotten).
cubicSender_applyMinRateProtection_NoRateFloor(w) ==
    IF w < cubicSender_minCongestionWindow THEN cubicSender_minCongestionWindow ELSE w

\* The window applyMinRateProtection leaves, for the window w it finds:
\* ByteCount(float64(minBandwidthLimit) * srtt.Seconds() / 8), at least the
\* minimum window.
cubicSender_applyMinRateProtection(w) ==
    LET srtt == IF rttStats.smoothed <= 0 THEN 100 * Millisecond
                ELSE rttStats.smoothed
        bdp == MulDiv(minBandwidthLimit, srtt, 8 * Second)
        minCwnd == IF bdp < cubicSender_minCongestionWindow
                      THEN cubicSender_minCongestionWindow ELSE bdp
    IN  IF w < minCwnd THEN minCwnd ELSE w

\* ------------------------------------------------ cubicSender: the handlers

\* What the recorder holds after it is handed one more event: the model
\* keeps the last two events of its log.
Recorded(log, new) ==
    IF Len(log) = 0 THEN <<new>> ELSE <<log[Len(log)], new>>

\* cubicSender.maybeQlogStateChange without the comparison with lastState.
cubicSender_maybeQlogStateChange_NoDedup(new) ==
    IF ~qlogger
        THEN UNCHANGED <<events, lastState>>
        ELSE /\ events' = Recorded(events, new)
             /\ lastState' = new

cubicSender_maybeQlogStateChange(new) ==
    IF ~qlogger \/ new = lastState
        THEN UNCHANGED <<events, lastState>>
        ELSE /\ events' = Recorded(events, new)
             /\ lastState' = new

\* cubicSender.maybeIncreaseCwnd with slow start growing the window by the
\* bytes acknowledged (byte counting) instead of one datagram.
cubicSender_maybeIncreaseCwnd_ByAckedBytes(ackedBytes, priorInFlight, eventTime) ==
    IF ~cubicSender_isCwndLimited(priorInFlight) THEN
        /\ cubic' = Cubic_OnApplicationLimited(cubic)
        /\ cubicSender_maybeQlogStateChange("application_limited")
        /\ UNCHANGED <<congestionWindow, numAckedPackets>>
    ELSE IF congestionWindow >= cubicSender_maxCongestionWindow THEN
        UNCHANGED <<cubic, events, lastState, congestionWindow, numAckedPackets>>
    ELSE
        /\ congestionWindow' = congestionWindow + ackedBytes
        /\ cubicSender_maybeQlogStateChange("slow_start")
        /\ UNCHANGED <<cubic, numAckedPackets>>

cubicSender_maybeIncreaseCwnd(ackedBytes, priorInFlight, eventTime) ==
    IF ~cubicSender_isCwndLimited(priorInFlight) THEN
        /\ cubic' = Cubic_OnApplicationLimited(cubic)
        /\ cubicSender_maybeQlogStateChange("application_limited")
        /\ UNCHANGED <<congestionWindow, numAckedPackets>>
    ELSE IF congestionWindow >= cubicSender_maxCongestionWindow THEN
        UNCHANGED <<cubic, events, lastState, congestionWindow, numAckedPackets>>
    ELSE IF cubicSender_InSlowStart THEN
        /\ congestionWindow' = congestionWindow + maxDatagramSize
        /\ cubicSender_maybeQlogStateChange("slow_start")
        /\ UNCHANGED <<cubic, numAckedPackets>>
    ELSE
        /\ cubicSender_maybeQlogStateChange("congestion_avoidance")
        /\ IF reno THEN
              /\ IF numAckedPackets + 1 >= congestionWindow \div maxDatagramSize
                    THEN /\ congestionWindow' = congestionWindow + maxDatagramSize
                         /\ numAckedPackets' = 0
                    ELSE /\ numAckedPackets' = numAckedPackets + 1
                         /\ UNCHANGED congestionWindow
              /\ UNCHANGED cubic
           ELSE
              LET r == Cubic_CongestionWindowAfterAck(
                           cubic, ackedBytes, congestionWindow, rttStats.min, eventTime)
              IN  /\ congestionWindow' = Min(cubicSender_maxCongestionWindow, r.cwnd)
                  /\ cubic' = r.cubic
                  /\ UNCHANGED numAckedPackets

cubicSender_OnPacketSent(sentTime, bytesInFlight, packetNumber, bytes, isRetransmittable) ==
    /\ pacer' = pacer_SentPacket(sentTime, bytes)
    /\ largestSentPacketNumber' =
           IF isRetransmittable THEN packetNumber ELSE largestSentPacketNumber
    /\ UNCHANGED <<reno, largestAckedPacketNumber, largestSentAtLastCutback,
                   lastCutbackExitedSlowstart, congestionWindow, slowStartThreshold,
                   numAckedPackets, maxDatagramSize, lastState, qlogger, events,
                   cubic, connStats>>

\* cubicSender.OnPacketAcked without the return in recovery.
cubicSender_OnPacketAcked_NoRecoveryCheck(ackedPacketNumber, ackedBytes, priorInFlight, eventTime) ==
    /\ largestAckedPacketNumber' = Max(ackedPacketNumber, largestAckedPacketNumber)
    /\ cubicSender_maybeIncreaseCwnd(ackedBytes, priorInFlight, eventTime)
    /\ UNCHANGED <<reno, largestSentPacketNumber, largestSentAtLastCutback,
                   lastCutbackExitedSlowstart, slowStartThreshold, maxDatagramSize,
                   qlogger, pacer, connStats>>

cubicSender_OnPacketAcked(ackedPacketNumber, ackedBytes, priorInFlight, eventTime) ==
    /\ largestAckedPacketNumber' = Max(ackedPacketNumber, largestAckedPacketNumber)
    /\ IF InRecoveryWith(Max(ackedPacketNumber, largestAckedPacketNumber))
          THEN UNCHANGED <<cubic, events, lastState, congestionWindow, numAckedPackets>>
          ELSE cubicSender_maybeIncreaseCwnd(ackedBytes, priorInFlight, eventTime)
    /\ UNCHANGED <<reno, largestSentPacketNumber, largestSentAtLastCutback,
                   lastCutbackExitedSlowstart, slowStartThreshold, maxDatagramSize,
                   qlogger, pacer, connStats>>

\* cubicSender.OnCongestionEvent counting the lost packet but not its bytes.
cubicSender_OnCongestionEvent_NoByteCount(packetNumber, lostBytes, priorInFlight) ==
    /\ connStats' = [connStats EXCEPT !.PacketsLost = @ + 1]
    /\ IF \/ packetNumber <= largestSentAtLastCutback
          \/ /\ connStats.BytesSent > 0
             /\ LossBelowTolerance(connStats.BytesLost, connStats.BytesSent)
       THEN UNCHANGED <<lastCutbackExitedSlowstart, events, lastState,
                        congestionWindow, cubic, slowStartThreshold,
                        largestSentAtLastCutback, numAckedPackets>>
       ELSE LET loss == Cubic_CongestionWindowAfterPacketLoss(cubic, congestionWindow)
                cut == IF reno THEN F64Mul07Trunc(congestionWindow) ELSE loss.cwnd
                w == cubicSender_applyMinRateProtection(cut)
            IN  /\ lastCutbackExitedSlowstart' = cubicSender_InSlowStart
                /\ cubicSender_maybeQlogStateChange("recovery")
                /\ cubic' = IF reno THEN cubic ELSE loss.cubic
                /\ congestionWindow' = w
                /\ slowStartThreshold' = w
                /\ largestSentAtLastCutback' = largestSentPacketNumber
                /\ numAckedPackets' = 0
    /\ UNCHANGED <<reno, largestSentPacketNumber, largestAckedPacketNumber,
                   maxDatagramSize, qlogger, pacer>>

\* cubicSender.OnCongestionEvent without the return for a packet sent before
\* the last cutback.
cubicSender_OnCongestionEvent_NoCutbackCheck(packetNumber, lostBytes, priorInFlight) ==
    /\ connStats' = [connStats EXCEPT !.PacketsLost = @ + 1,
                                      !.BytesLost = @ + lostBytes]
    /\ IF /\ connStats.BytesSent > 0
          /\ LossBelowTolerance(connStats.BytesLost + lostBytes, connStats.BytesSent)
       THEN UNCHANGED <<lastCutbackExitedSlowstart, events, lastState,
                        congestionWindow, cubic, slowStartThreshold,
                        largestSentAtLastCutback, numAckedPackets>>
       ELSE LET loss == Cubic_CongestionWindowAfterPacketLoss(cubic, congestionWindow)
                cut == IF reno THEN F64Mul07Trunc(congestionWindow) ELSE loss.cwnd
                w == cubicSender_applyMinRateProtection(cut)
            IN  /\ lastCutbackExitedSlowstart' = cubicSender_InSlowStart
                /\ cubicSender_maybeQlogStateChange("recovery")
                /\ cubic' = IF reno THEN cubic ELSE loss.cubic
                /\ congestionWindow' = w
                /\ slowStartThreshold' = w
                /\ largestSentAtLastCutback' = largestSentPacketNumber
                /\ numAckedPackets' = 0
    /\ UNCHANGED <<reno, largestSentPacketNumber, largestAckedPacketNumber,
                   maxDatagramSize, qlogger, pacer>>

cubicSender_OnCongestionEvent(packetNumber, lostBytes, priorInFlight) ==
    /\ connStats' = [connStats EXCEPT !.PacketsLost = @ + 1,
                                      !.BytesLost = @ + lostBytes]
    /\ IF \/ packetNumber <= largestSentAtLastCutback
          \/ /\ connStats.BytesSent > 0
             /\ LossBelowTolerance(connStats.BytesLost + lostBytes, connStats.BytesSent)
       THEN UNCHANGED <<lastCutbackExitedSlowstart, events, lastState,
                        congestionWindow, cubic, slowStartThreshold,
                        largestSentAtLastCutback, numAckedPackets>>
       ELSE LET loss == Cubic_CongestionWindowAfterPacketLoss(cubic, congestionWindow)
                cut == IF reno THEN F64Mul07Trunc(congestionWindow) ELSE loss.cwnd
                w == cubicSender_applyMinRateProtection(cut)
            IN  /\ lastCutbackExitedSlowstart' = cubicSender_InSlowStart
                /\ cubicSender_maybeQlogStateChange("recovery")
                /\ cubic' = IF reno THEN cubic ELSE loss.cubic
                /\ congestionWindow' = w
                /\ slowStartThreshold' = w
                /\ largestSentAtLastCutback' = largestSentPacketNumber
                /\ numAckedPackets' = 0
    /\ UNCHANGED <<reno, largestSentPacketNumber, largestAckedPacketNumber,
                   maxDatagramSize, qlogger, pacer>>

\* hybridSlowStart.ShouldExitSlowStart is the connection's to decide here:
\* shouldExit is its answer.
cubicSender_MaybeExitSlowStart(shouldExit) ==
    /\ IF cubicSender_InSlowStart /\ shouldExit
          THEN /\ slowStartThreshold' = congestionWindow
               /\ cubicSender_maybeQlogStateChange("congestion_avoidance")
          ELSE UNCHANGED <<slowStartThreshold, events, lastState>>
    /\ UNCHANGED <<reno, largestSentPacketNumber, largestAckedPacketNumber,
                   largestSentAtLastCutback, lastCutbackExitedSlowstart,
                   congestionWindow, numAckedPackets, maxDatagramSize, qlogger,
                   cubic, pacer, connStats>>

\* cubicSender.OnRetransmissionTimeout collapsing the window to the initial
\* window instead of the minimum window.
cubicSender_OnRetransmissionTimeout_ToInitialWindow(packetsRetransmitted) ==
    /\ largestSentAtLastCutback' = InvalidPacketNumber
    /\ IF ~packetsRetransmitted
          THEN UNCHANGED <<cubic, slowStartThreshold, congestionWindow>>
          ELSE /\ cubic' = Cubic_Reset
               /\ slowStartThreshold' = congestionWindow \div 2
               /\ congestionWindow' =
                      cubicSender_applyMinRateProtection(initialCongestionWindowBytes)
    /\ UNCHANGED <<reno, largestSentPacketNumber, largestAckedPacketNumber,
                   lastCutbackExitedSlowstart, numAckedPackets, maxDatagramSize,
                   lastState, qlogger, events, pacer, connStats>>

cubicSender_OnRetransmissionTimeout(packetsRetransmitted) ==
    /\ largestSentAtLastCutback' = InvalidPacketNumber
    /\ IF ~packetsRetransmitted
          THEN UNCHANGED <<cubic, slowStartThreshold, congestionWindow>>
          ELSE /\ cubic' = Cubic_Reset
               /\ slowStartThreshold' = congestionWindow \div 2
               /\ congestionWindow' =
                      cubicSender_applyMinRateProtection(cubicSender_minCongestionWindow)
    /\ UNCHANGED <<reno, largestSentPacketNumber, largestAckedPacketNumber,
                   lastCutbackExitedSlowstart, numAckedPackets, maxDatagramSize,
                   lastState, qlogger, events, pacer, connStats>>

cubicSender_OnConnectionMigration ==
    /\ largestSentPacketNumber' = InvalidPacketNumber
    /\ largestAckedPacketNumber' = InvalidPacketNumber
    /\ largestSentAtLastCutback' = InvalidPacketNumber
    /\ lastCutbackExitedSlowstart' = FALSE
    /\ cubic' = Cubic_Reset
    /\ numAckedPackets' = 0
    /\ congestionWindow' = initialCongestionWindowBytes
    /\ slowStartThreshold' = initialMaxCongestionWindow
    /\ UNCHANGED <<reno, maxDatagramSize, lastState, qlogger, events, pacer, connStats>>

\* cubicSender.SetMaxDatagramSize: a smaller size panics, and the process is
\* gone.
cubicSender_SetMaxDatagramSize(s) ==
    IF s < maxDatagramSize THEN
        /\ status' = "panicked"
        /\ UNCHANGED <<cubicVars, connStats>>
    ELSE
        /\ maxDatagramSize' = s
        /\ congestionWindow' =
               IF congestionWindow = cubicSender_minCongestionWindow
                  THEN s * minCongestionWindowPackets
                  ELSE congestionWindow
        /\ UNCHANGED <<status, reno, largestSentPacketNumber, largestAckedPacketNumber,
                       largestSentAtLastCutback, lastCutbackExitedSlowstart,
                       slowStartThreshold, numAckedPackets, lastState, qlogger,
                       events, cubic, pacer, connStats>>

\* cubicSender.TimeUntilSend: the pacer's answer, whatever the bytes in flight.
cubicSender_TimeUntilSend(bytesInFlight) == pacer_TimeUntilSend

\* ----------------------------------------------------------- hysteriaSender

\* NewHysteriaSender: targetBps and the initial rate for mbps.
hysteria_targetBps(mbps) == ((IF mbps <= 0 THEN 10 ELSE mbps) * 1024 * 1024) \div 8

hysteria_initialBps(mbps) ==
    LET initialBps == IF mbps > 100 THEN (100 * 1024 * 1024) \div 8
                      ELSE (hysteria_targetBps(mbps) * 6) \div 10
    IN  IF initialBps < minStartBps THEN minStartBps ELSE initialBps

\* ByteCount(float64(currentBps) * rtt.Seconds() * multiplier), at least 32
\* datagrams; 1 MiB with no RTT sample.
hysteriaSender_GetCongestionWindow ==
    LET rtt == rttStats.smoothed
        multiplier10 == IF rtt >= 180 * Millisecond THEN 11
                        ELSE IF rtt >= 100 * Millisecond THEN 13
                        ELSE 15
        cwnd == MulDiv(currentBps, rtt * multiplier10, 10 * Second)
    IN  IF rtt = 0 THEN 1 * 1024 * 1024
        ELSE IF cwnd < 32 * maxDatagram THEN 32 * maxDatagram
        ELSE cwnd

hysteriaSender_CanSend(bytesInFlight) == bytesInFlight < hysteriaSender_GetCongestionWindow
hysteriaSender_HasPacingBudget(t) == ~(nextSendTime > t + Millisecond)
hysteriaSender_InSlowStart == FALSE
hysteriaSender_InRecovery == FALSE

\* hysteriaSender.TimeUntilSend without the stall for a full window.
hysteriaSender_TimeUntilSend_NoStall(bytesInFlight, t) ==
    IF nextSendTime > t + Millisecond THEN nextSendTime
    ELSE 0

\* hysteriaSender.TimeUntilSend at the instant t = monotime.Now().
hysteriaSender_TimeUntilSend(bytesInFlight, t) ==
    IF bytesInFlight >= hysteriaSender_GetCongestionWindow THEN t + Hour
    ELSE IF nextSendTime > t + Millisecond THEN nextSendTime
    ELSE 0

\* hysteriaSender.OnPacketSent without the burst limit.
hysteriaSender_OnPacketSent_NoBurstLimit(t, bytesInFlight, packetNumber, bytes, isRetransmittable) ==
    IF currentBps = 0 THEN
        /\ status' = "panicked"
        /\ UNCHANGED hysteriaVars
    ELSE
        LET interval == MulDiv(bytes, Second, currentBps)
        IN  /\ nextSendTime' = IF nextSendTime < t THEN t + interval
                                ELSE nextSendTime + interval
            /\ UNCHANGED <<status, targetBps, currentBps, stableBps, maxDatagram,
                           rttHistory, rttIdx, maxRTT, rttCount>>

\* hysteriaSender.OnPacketSent at the instant t = monotime.Now(); the interval
\* bytes * 1s / currentBps is cut to the unit of time.  A rate of 0 divides by
\* zero: the process panics.
hysteriaSender_OnPacketSent(t, bytesInFlight, packetNumber, bytes, isRetransmittable) ==
    IF currentBps = 0 THEN
        /\ status' = "panicked"
        /\ UNCHANGED hysteriaVars
    ELSE
        LET interval == MulDiv(bytes, Second, currentBps)
            next == IF nextSendTime < t THEN t + interval ELSE nextSendTime + interval
            halfRTT == rttStats.latest \div 2
            limitTime == IF halfRTT > 20 * Millisecond THEN halfRTT
                         ELSE 20 * Millisecond
        IN  /\ nextSendTime' = IF next > t + limitTime THEN t + limitTime ELSE next
            /\ UNCHANGED <<status, targetBps, currentBps, stableBps, maxDatagram,
                           rttHistory, rttIdx, maxRTT, rttCount>>

\* The rate updateRTTAndCheckJitter would leave without its floor at
\* minStartBps.
hysteria_jitterBps_NoFloor ==
    IF /\ rttStats.latest > 0
       /\ rttStats.smoothed > 20 * Millisecond
       /\ rttStats.latest > rttStats.smoothed * 2
    THEN (currentBps * 85) \div 100
    ELSE currentBps

\* The rate updateRTTAndCheckJitter leaves.
hysteria_jitterBps ==
    IF /\ rttStats.latest > 0
       /\ rttStats.smoothed > 20 * Millisecond
       /\ rttStats.latest > rttStats.smoothed * 2
    THEN Max((currentBps * 85) \div 100, minStartBps)
    ELSE currentBps

hysteriaSender_updateRTTAndCheckJitter ==
    /\ IF rttStats.latest <= 0
          THEN UNCHANGED <<rttHistory, rttIdx, maxRTT>>
          ELSE /\ rttHistory' = [rttHistory EXCEPT ![rttIdx] = rttStats.latest]
               /\ rttIdx' = (rttIdx + 1) % rttWindowSize
               /\ maxRTT' = IF rttStats.latest > maxRTT THEN rttStats.latest ELSE maxRTT

\* hysteriaSender.OnPacketAcked without the clamp of the grown rate to
\* targetBps.
hysteriaSender_OnPacketAcked_NoClamp(pn, ackedBytes, priorInFlight, eventTime) ==
    LET bps == hysteria_jitterBps
        growFactor100 == IF rttStats.smoothed > 150 * Millisecond THEN 125 ELSE 110
        grown == (bps * growFactor100) \div 100
    IN  /\ hysteriaSender_updateRTTAndCheckJitter
        /\ IF rttCount + 1 >= 4
              THEN /\ rttCount' = 0
                   /\ currentBps' = IF bps < targetBps THEN grown ELSE bps
              ELSE /\ rttCount' = rttCount + 1
                   /\ currentBps' = bps
        /\ UNCHANGED <<targetBps, stableBps, maxDatagram, nextSendTime>>

\* hysteriaSender.OnPacketAcked with a growth tick on every third ack.
hysteriaSender_OnPacketAcked_EveryThirdAck(pn, ackedBytes, priorInFlight, eventTime) ==
    LET bps == hysteria_jitterBps
        growFactor100 == IF rttStats.smoothed > 150 * Millisecond THEN 125 ELSE 110
        grown == (bps * growFactor100) \div 100
    IN  /\ hysteriaSender_updateRTTAndCheckJitter
        /\ IF rttCount + 1 >= 3
              THEN /\ rttCount' = 0
                   /\ currentBps' = IF bps < targetBps
                                       THEN (IF grown > targetBps THEN targetBps ELSE grown)
                                       ELSE bps
              ELSE /\ rttCount' = rttCount + 1
                   /\ currentBps' = bps
        /\ UNCHANGED <<targetBps, stableBps, maxDatagram, nextSendTime>>

hysteriaSender_OnPacketAcked(pn, ackedBytes, priorInFlight, eventTime) ==
    LET bps == hysteria_jitterBps
        growFactor100 == IF rttStats.smoothed > 150 * Millisecond THEN 125 ELSE 110
        grown == (bps * growFactor100) \div 100
    IN  /\ hysteriaSender_updateRTTAndCheckJitter
        /\ IF rttCount + 1 >= 4
              THEN /\ rttCount' = 0
                   /\ currentBps' = IF bps < targetBps
                                       THEN (IF grown > targetBps THEN targetBps ELSE grown)
                                       ELSE bps
              ELSE /\ rttCount' = rttCount + 1
                   /\ currentBps' = bps
        /\ UNCHANGED <<targetBps, stableBps, maxDatagram, nextSendTime>>

\* The loss tolerance of the RTT tier, in percent.
hysteria_threshold100 ==
    IF rttStats.smoothed < 50 * Millisecond THEN 10
    ELSE IF rttStats.smoothed < 100 * Millisecond THEN 15
    ELSE IF rttStats.smoothed < 180 * Millisecond THEN 20
    ELSE 30

\* float64(lostBytes) / float64(priorInFlight+1) > threshold, as a comparison
\* of whole numbers: 100 * lostBytes > threshold100 * (priorInFlight + 1).
hysteria_lossAboveThreshold(lostBytes, priorInFlight) ==
    priorInFlight + 1 <= (100 * lostBytes - 1) \div hysteria_threshold100

hysteriaSender_OnCongestionEvent(pn, lostBytes, priorInFlight) ==
    /\ IF hysteria_lossAboveThreshold(lostBytes, priorInFlight)
          THEN /\ currentBps' = (stableBps * 75) \div 100
               /\ rttCount' = -2
               /\ UNCHANGED stableBps
          ELSE /\ stableBps' = currentBps
               /\ UNCHANGED <<currentBps, rttCount>>
    /\ UNCHANGED <<targetBps, maxDatagram, nextSendTime, rttHistory, rttIdx, maxRTT>>

hysteriaSender_OnRetransmissionTimeout(packetsRetransmitted) ==
    /\ currentBps' = minStartBps
    /\ UNCHANGED <<targetBps, stableBps, maxDatagram, nextSendTime, rttHistory,
                   rttIdx, maxRTT, rttCount>>

hysteriaSender_MaybeExitSlowStart == UNCHANGED hysteriaVars

hysteriaSender_SetMaxDatagramSize(s) ==
    /\ maxDatagram' = s
    /\ UNCHANGED <<targetBps, currentBps, stableBps, nextSendTime, rttHistory,
                   rttIdx, maxRTT, rttCount>>

\* ------------------------------------------------------------- the inputs

\* What the RTT estimator reports: no sample yet, a LAN, a latest RTT above
\* twice the smoothed one, a very long path.
RTTSamples ==
    { [smoothed |-> 0, latest |-> 0, min |-> 0],
      [smoothed |-> 4 * Millisecond, latest |-> 4 * Millisecond, min |-> 4 * Millisecond],
      [smoothed |-> 40 * Millisecond, latest |-> 100 * Millisecond, min |-> 30 * Millisecond],
      [smoothed |-> 20 * Second, latest |-> 20 * Second, min |-> 30 * Millisecond] }

DatagramSizes == {InitialPacketSize, 1452}
MbpsInputs == {0, 1, 101}
SentBytes == {InitialPacketSize}
\* The bytes an acknowledgement reports: a whole packet, and for the CUBIC
\* sender also half a packet (hysteriaSender.OnPacketAcked does not read
\* ackedBytes).
AckedBytes == IF ctrl = "cubic" THEN {InitialPacketSize, 600} ELSE {InitialPacketSize}
LostBytes == {InitialPacketSize}
SentChunks == {24000}
TickSteps == {10 * Millisecond}
StartTime == 100 * Millisecond
\* The time between two packets in the runs of the Hysteria sender alone.
SendGap == 100 * Millisecond

\* How many steps a run takes.
MaxCalls == IF ctrl = "cubic" THEN MaxCubicCalls ELSE MaxHysteriaCalls

\* The window of the controller in use.
GetCongestionWindow ==
    IF ctrl = "cubic" THEN cubicSender_GetCongestionWindow
    ELSE hysteriaSender_GetCongestionWindow

\* The bytes in flight the connection reports with a call: none or the whole
\* window; with an acknowledgement also just above half the window (what
\* isCwndLimited tests in slow start); with a loss also 7999, for which the
\* loss rate of a 1200-byte packet is 0.15, between the tiers of
\* hysteriaSender.OnCongestionEvent. cubicSender.OnCongestionEvent and
\* hysteriaSender.OnPacketAcked do not read priorInFlight, and no OnPacketSent
\* reads bytesInFlight.
\* Whether a packet sent is retransmittable; hysteriaSender.OnPacketSent does
\* not read the flag.
Retransmittable == IF ctrl = "cubic" THEN BOOLEAN ELSE {TRUE}

\* The packets the connection may report acknowledged or lost: any packet in
\* flight; hysteriaSender reads no packet number, so there the oldest one.
Reportable ==
    IF ctrl = "cubic" \/ outstanding = {} THEN outstanding
    ELSE {CHOOSE pn \in outstanding : \A other \in outstanding : pn <= other}

\* The arguments of OnRetransmissionTimeout and what hybrid slow start
\* answers in MaybeExitSlowStart; hysteriaSender reads neither.
Flags == IF ctrl = "cubic" THEN BOOLEAN ELSE {FALSE}

InFlightInputs == {0, GetCongestionWindow}
InFlightAtSend == {0}
InFlightAtAck ==
    IF ctrl = "cubic" THEN InFlightInputs \cup {(GetCongestionWindow \div 2) + 1}
    ELSE {GetCongestionWindow}
InFlightAtLoss ==
    IF ctrl = "cubic" THEN {GetCongestionWindow}
    ELSE InFlightInputs \cup {7999}

\* ------------------------------------------------- the connection's record

\* penalty is history: since the last OnCongestionEvent of the Hysteria
\* sender with a loss over the threshold, the rttCount that call found (pre)
\* and the acks reported since (acks); acks = -1 when there was none, or when
\* it is long ago (the sixth ack, and the second ack on which a counter run
\* on from pre completes a round of four, are both past).
NoPenalty == [pre |-> 0, acks |-> -1]

penalty_OnCongestionEvent(lostBytes, priorInFlight) ==
    IF ctrl = "hysteria" /\ hysteria_lossAboveThreshold(lostBytes, priorInFlight)
        THEN [pre |-> rttCount, acks |-> 0]
        ELSE penalty

penalty_OnPacketAcked ==
    IF penalty.acks < 0 THEN penalty
    ELSE IF penalty.acks + 1 >= Max(6, 8 - penalty.pre) THEN NoPenalty
    ELSE [penalty EXCEPT !.acks = @ + 1]

\* ------------------------------------------------------------ construction

NoCubicSender ==
    /\ reno = FALSE
    /\ qlogger = FALSE
    /\ largestSentPacketNumber = InvalidPacketNumber
    /\ largestAckedPacketNumber = InvalidPacketNumber
    /\ largestSentAtLastCutback = InvalidPacketNumber
    /\ lastCutbackExitedSlowstart = FALSE
    /\ congestionWindow = 0
    /\ slowStartThreshold = 0
    /\ numAckedPackets = 0
    /\ maxDatagramSize = 0
    /\ lastState = ""
    /\ events = <<>>
    /\ cubic = Cubic_Reset
    /\ pacer = [budget |-> 0, lastUpdate |-> 0]

NoHysteriaSender ==
    /\ targetBps = 0
    /\ currentBps = 0
    /\ stableBps = 0
    /\ maxDatagram = 0
    /\ nextSendTime = 0
    /\ rttHistory = [i \in 0 .. rttWindowSize - 1 |-> 0]
    /\ rttIdx = 0
    /\ maxRTT = 0
    /\ rttCount = 0

\* NewCubicSender(clock, rttStats, connStats, InitialPacketSize, r, q), with
\* a recorder (q) or none; the pacer starts with a full bucket.
NewCubicSender(r, q) ==
    /\ reno = r
    /\ qlogger = q
    /\ largestSentPacketNumber = InvalidPacketNumber
    /\ largestAckedPacketNumber = InvalidPacketNumber
    /\ largestSentAtLastCutback = InvalidPacketNumber
    /\ lastCutbackExitedSlowstart = FALSE
    /\ congestionWindow = initialCongestionWindowBytes
    /\ slowStartThreshold = MaxByteCount
    /\ numAckedPackets = 0
    /\ maxDatagramSize = InitialPacketSize
    /\ lastState = IF q THEN "slow_start" ELSE ""
    /\ events = IF q THEN <<"slow_start">> ELSE <<>>
    /\ cubic = Cubic_Reset
    /\ pacer = [budget |-> maxBurstPackets * InitialPacketSize, lastUpdate |-> 0]

\* NewHysteriaSender(rttStats, InitialPacketSize, mbps) at the instant t.
NewHysteriaSender(mbps, t) ==
    /\ targetBps = hysteria_targetBps(mbps)
    /\ currentBps = hysteria_initialBps(mbps)
    /\ stableBps = hysteria_initialBps(mbps)
    /\ maxDatagram = InitialPacketSize
    /\ nextSendTime = t - 100 * Millisecond
    /\ rttHistory = [i \in 0 .. rttWindowSize - 1 |-> 0]
    /\ rttIdx = 0
    /\ maxRTT = 0
    /\ rttCount = 0

Init ==
    /\ status = "running"
    /\ op = Call("New", 0, 0, 0, FALSE, 0)
    /\ now = StartTime
    /\ ticks = 0
    /\ nextPacketNumber = 0
    /\ outstanding = {}
    /\ penalty = NoPenalty
    /\ calls = 0
    /\ sentChunks = 0
    /\ rttUpdates = 0
    /\ rttStats = [smoothed |-> 0, latest |-> 0, min |-> 0]
    /\ connStats = [BytesSent |-> 0, BytesLost |-> 0, PacketsLost |-> 0]
    /\ \/ /\ ctrl = "cubic"
          /\ \E r \in BOOLEAN, q \in BOOLEAN : NewCubicSender(r, q)
          /\ NoHysteriaSender
       \/ /\ ctrl = "hysteria"
          /\ \E mbps \in MbpsInputs : NewHysteriaSender(mbps, StartTime)
          /\ NoCubicSender

\* ------------------------------------------------- the connection's steps

\* Every step is taken by a running process that has calls left, and counts.
Step ==
    /\ status = "running"
    /\ calls < MaxCalls
    /\ calls' = calls + 1

\* The clock advances.
Tick ==
    /\ Step
    /\ ticks < MaxTicks
    /\ \E d \in TickSteps : now' = now + d
    /\ ticks' = ticks + 1
    /\ op' = Call("Tick", 0, 0, 0, FALSE, 0)
    /\ UNCHANGED <<ctrl, status, packetVars, sentChunks, rttUpdates, rttStats,
                   connStats, cubicVars, hysteriaVars>>

\* The RTT estimator takes a sample.
UpdateRTT ==
    /\ Step
    /\ rttUpdates < MaxRTTUpdates
    /\ \E sample \in RTTSamples :
          /\ sample # rttStats
          /\ rttStats' = sample
    /\ rttUpdates' = rttUpdates + 1
    /\ op' = Call("UpdateRTT", 0, 0, 0, FALSE, 0)
    /\ UNCHANGED <<ctrl, status, clockVars, packetVars, sentChunks, connStats,
                   cubicVars, hysteriaVars>>

\* The connection counts bytes it sent (connStats is handed to the CUBIC
\* sender only).
CountSent ==
    /\ Step
    /\ ctrl = "cubic"
    /\ sentChunks < MaxSentChunks
    /\ \E n \in SentChunks :
          connStats' = [connStats EXCEPT !.BytesSent = @ + n]
    /\ sentChunks' = sentChunks + 1
    /\ op' = Call("CountSent", 0, 0, 0, FALSE, 0)
    /\ UNCHANGED <<ctrl, status, clockVars, packetVars, rttUpdates, rttStats,
                   cubicVars, hysteriaVars>>

\* ------------------------------------------- the calls on the controller

OnPacketSent ==
    /\ Step
    /\ nextPacketNumber < MaxPackets
    /\ \E bytes \in SentBytes, isRetransmittable \in Retransmittable,
          bytesInFlight \in InFlightAtSend :
          /\ IF ctrl = "cubic"
                THEN /\ cubicSender_OnPacketSent(now, bytesInFlight, nextPacketNumber,
                                                 bytes, isRetransmittable)
                     /\ UNCHANGED <<status, hysteriaVars>>
                ELSE /\ hysteriaSender_OnPacketSent(now, bytesInFlight, nextPacketNumber,
                                                    bytes, isRetransmittable)
                     /\ UNCHANGED <<cubicVars, connStats>>
          /\ outstanding' = IF isRetransmittable
                               THEN outstanding \cup {nextPacketNumber}
                               ELSE outstanding
          /\ op' = Call("OnPacketSent", nextPacketNumber, bytes, bytesInFlight,
                        isRetransmittable, 0)
    /\ nextPacketNumber' = nextPacketNumber + 1
    /\ UNCHANGED <<ctrl, envVars, penalty>>

OnPacketAcked ==
    /\ Step
    /\ \E pn \in Reportable, ackedBytes \in AckedBytes, priorInFlight \in InFlightAtAck :
          /\ IF ctrl = "cubic"
                THEN /\ cubicSender_OnPacketAcked(pn, ackedBytes, priorInFlight, now)
                     /\ UNCHANGED hysteriaVars
                ELSE /\ hysteriaSender_OnPacketAcked(pn, ackedBytes, priorInFlight, now)
                     /\ UNCHANGED <<cubicVars, connStats>>
          /\ outstanding' = outstanding \ {pn}
          /\ penalty' = penalty_OnPacketAcked
          /\ op' = Call("OnPacketAcked", pn, ackedBytes, priorInFlight, FALSE, 0)
    /\ UNCHANGED <<ctrl, status, nextPacketNumber, envVars>>

OnCongestionEvent ==
    /\ Step
    /\ \E pn \in Reportable, lostBytes \in LostBytes, priorInFlight \in InFlightAtLoss :
          /\ IF ctrl = "cubic"
                THEN /\ cubicSender_OnCongestionEvent(pn, lostBytes, priorInFlight)
                     /\ UNCHANGED hysteriaVars
                ELSE /\ hysteriaSender_OnCongestionEvent(pn, lostBytes, priorInFlight)
                     /\ UNCHANGED <<cubicVars, connStats>>
          /\ outstanding' = outstanding \ {pn}
          /\ penalty' = penalty_OnCongestionEvent(lostBytes, priorInFlight)
          /\ op' = Call("OnCongestionEvent", pn, lostBytes, priorInFlight, FALSE, 0)
    /\ UNCHANGED <<ctrl, status, nextPacketNumber, envVars>>

OnRetransmissionTimeout ==
    /\ Step
    /\ \E packetsRetransmitted \in Flags :
          /\ IF ctrl = "cubic"
                THEN /\ cubicSender_OnRetransmissionTimeout(packetsRetransmitted)
                     /\ UNCHANGED hysteriaVars
                ELSE /\ hysteriaSender_OnRetransmissionTimeout(packetsRetransmitted)
                     /\ UNCHANGED <<cubicVars, connStats>>
          /\ op' = Call("OnRetransmissionTimeout", 0, 0, 0, packetsRetransmitted, 0)
    /\ UNCHANGED <<ctrl, status, packetVars, envVars>>

\* Only the CUBIC sender has OnConnectionMigration.
OnConnectionMigration ==
    /\ Step
    /\ ctrl = "cubic"
    /\ cubicSender_OnConnectionMigration
    /\ op' = Call("OnConnectionMigration", 0, 0, 0, FALSE, 0)
    /\ UNCHANGED <<ctrl, status, packetVars, envVars, hysteriaVars>>

MaybeExitSlowStart ==
    /\ Step
    /\ \E shouldExit \in Flags :
          /\ IF ctrl = "cubic"
                THEN /\ cubicSender_MaybeExitSlowStart(shouldExit)
                     /\ UNCHANGED hysteriaVars
                ELSE /\ hysteriaSender_MaybeExitSlowStart
                     /\ UNCHANGED <<cubicVars, connStats>>
          /\ op' = Call("MaybeExitSlowStart", 0, 0, 0, shouldExit, 0)
    /\ UNCHANGED <<ctrl, status, packetVars, envVars>>

SetMaxDatagramSize ==
    /\ Step
    /\ \E s \in DatagramSizes :
          /\ IF ctrl = "cubic"
                THEN /\ cubicSender_SetMaxDatagramSize(s)
                     /\ UNCHANGED hysteriaVars
                ELSE /\ hysteriaSender_SetMaxDatagramSize(s)
                     /\ UNCHANGED <<status, cubicVars, connStats>>
          /\ op' = Call("SetMaxDatagramSize", 0, s, 0, FALSE, 0)
    /\ UNCHANGED <<ctrl, packetVars, envVars>>

TimeUntilSend ==
    /\ Step
    /\ \E bytesInFlight \in InFlightInputs :
          op' = Call("TimeUntilSend", 0, 0, bytesInFlight, FALSE,
                     IF ctrl = "cubic"
                        THEN cubicSender_TimeUntilSend(bytesInFlight)
                        ELSE hysteriaSender_TimeUntilSend(bytesInFlight, now))
    /\ UNCHANGED <<ctrl, status, connVars, cubicVars, hysteriaVars>>

Next ==
    \/ Tick
    \/ UpdateRTT
    \/ CountSent
    \/ OnPacketSent
    \/ OnPacketAcked
    \/ OnCongestionEvent
    \/ OnRetransmissionTimeout
    \/ OnConnectionMigration
    \/ MaybeExitSlowStart
    \/ SetMaxDatagramSize
    \/ TimeUntilSend

Spec == Init /\ [][Next]_vars

\* ------------------------------------- the Hysteria sender in longer runs

\* Runs of the Hysteria sender that are not cut short by the step budget:
\* the connection keeps at most MaxInFlight packets in flight, and the run is
\* as long as the packets it sends; it sends a packet SendGap after the one
\* before.
RateStep ==
    /\ status = "running"
    /\ ctrl = "hysteria"
    /\ UNCHANGED <<ctrl, calls, ticks, sentChunks, cubicVars, connStats>>

\* The samples the rate reacts to: a latest RTT above twice the smoothed one,
\* and a smoothed RTT above 150 ms.
RateRTTSamples == {sample \in RTTSamples : sample.smoothed >= 40 * Millisecond}

RateUpdateRTT ==
    /\ RateStep
    /\ rttUpdates < MaxRTTUpdates
    /\ \E sample \in RateRTTSamples :
          /\ sample # rttStats
          /\ rttStats' = sample
    /\ rttUpdates' = rttUpdates + 1
    /\ op' = Call("UpdateRTT", 0, 0, 0, FALSE, 0)
    /\ UNCHANGED <<status, now, packetVars, hysteriaVars>>

RateOnPacketSent(maxPackets) ==
    /\ RateStep
    /\ nextPacketNumber < maxPackets
    /\ Cardinality(outstanding) < MaxInFlight
    /\ \E bytes \in SentBytes, bytesInFlight \in InFlightAtSend :
          /\ hysteriaSender_OnPacketSent(now + SendGap, bytesInFlight, nextPacketNumber,
                                         bytes, TRUE)
          /\ op' = Call("OnPacketSent", nextPacketNumber, bytes, bytesInFlight, TRUE, 0)
    /\ outstanding' = outstanding \cup {nextPacketNumber}
    /\ nextPacketNumber' = nextPacketNumber + 1
    /\ now' = now + SendGap
    /\ UNCHANGED <<rttUpdates, rttStats, penalty>>

RateOnPacketAcked ==
    /\ RateStep
    /\ \E pn \in Reportable, ackedBytes \in AckedBytes, priorInFlight \in InFlightAtAck :
          /\ hysteriaSender_OnPacketAcked(pn, ackedBytes, priorInFlight, now)
          /\ outstanding' = outstanding \ {pn}
          /\ penalty' = penalty_OnPacketAcked
          /\ op' = Call("OnPacketAcked", pn, ackedBytes, priorInFlight, FALSE, 0)
    /\ UNCHANGED <<status, now, nextPacketNumber, rttUpdates, rttStats>>

RateOnCongestionEvent ==
    /\ RateStep
    /\ \E pn \in Reportable, lostBytes \in LostBytes, priorInFlight \in InFlightAtLoss :
          /\ hysteriaSender_OnCongestionEvent(pn, lostBytes, priorInFlight)
          /\ outstanding' = outstanding \ {pn}
          /\ penalty' = penalty_OnCongestionEvent(lostBytes, priorInFlight)
          /\ op' = Call("OnCongestionEvent", pn, lostBytes, priorInFlight, FALSE, 0)
    /\ UNCHANGED <<status, now, nextPacketNumber, rttUpdates, rttStats>>

RateOnRetransmissionTimeout ==
    /\ RateStep
    /\ \E packetsRetransmitted \in Flags :
          /\ hysteriaSender_OnRetransmissionTimeout(packetsRetransmitted)
          /\ op' = Call("OnRetransmissionTimeout", 0, 0, 0, packetsRetransmitted, 0)
    /\ UNCHANGED <<status, now, packetVars, rttUpdates, rttStats>>

RateInit == Init /\ ctrl = "hysteria"

\* Acks and losses on up to MaxRatePackets packets, with an RTT sample.
RateNext ==
    \/ RateUpdateRTT
    \/ RateOnPacketSent(MaxRatePackets)
    \/ RateOnPacketAcked
    \/ RateOnCongestionEvent

RateSpec == RateInit /\ [][RateNext]_vars

\* Losses and timeouts alone, on up to MaxDecayPackets packets.
DecayNext ==
    \/ RateOnPacketSent(MaxDecayPackets)
    \/ RateOnCongestionEvent
    \/ RateOnRetransmissionTimeout

DecaySpec == RateInit /\ [][DecayNext]_vars

\* An ack of a packet sent after the last send the run records:
\* hysteriaSender.OnPacketAcked reads neither the packet number nor the time,
\* and OnPacketSent writes nextSendTime only, which no ack reads, so the sends
\* of these packets are left out and acks can arrive for ever.
GrowOnPacketAcked ==
    /\ RateStep
    /\ \E ackedBytes \in AckedBytes, priorInFlight \in InFlightAtAck :
          /\ hysteriaSender_OnPacketAcked(nextPacketNumber, ackedBytes, priorInFlight, now)
          /\ penalty' = penalty_OnPacketAcked
          /\ op' = Call("OnPacketAcked", nextPacketNumber, ackedBytes, priorInFlight,
                        FALSE, 0)
    /\ UNCHANGED <<status, now, nextPacketNumber, outstanding, rttUpdates, rttStats>>

\* Losses on up to MaxDecayPackets packets; once acks arrive, acks only.
GrowOnPacketSent ==
    /\ op.name # "OnPacketAcked"
    /\ RateOnPacketSent(MaxDecayPackets)

GrowOnCongestionEvent ==
    /\ op.name # "OnPacketAcked"
    /\ RateOnCongestionEvent

GrowNext ==
    \/ GrowOnPacketSent
    \/ GrowOnCongestionEvent
    \/ GrowOnPacketAcked

\* A sender built with the lowest rate, 1 Mbps.
GrowInit == RateInit /\ targetBps = minStartBps

\* Acks keep arriving.
GrowSpec == GrowInit /\ [][GrowNext]_vars /\ WF_vars(GrowOnPacketAcked)

\* ------------------------------------------------------------- the claims

\* The max datagram size of the controller in use.
MaxDatagramSize == IF ctrl = "cubic" THEN maxDatagramSize ELSE maxDatagram

\* An instant far in the future: an hour or more from now.
FarFuture(t) == t >= now + Hour

\* C1: for both controllers, in every state the calls can reach,
\* GetCongestionWindow() is at least 2 times the current max datagram size.
C1_WindowAtLeastTwoDatagrams ==
    GetCongestionWindow >= 2 * MaxDatagramSize

\* C2: for the CUBIC sender (cubic and reno modes), the congestion window
\* never exceeds maxDatagramSize * MaxCongestionWindowPackets.
C2_WindowAtMostMax ==
    ctrl = "cubic" => congestionWindow <= maxDatagramSize * MaxCongestionWindowPackets

\* C3: for the Hysteria sender, currentBps is at least minStartBps (131072
\* B/s) in every state reachable after construction.
C3_RateAtLeastMinStart ==
    ctrl = "hysteria" => currentBps >= minStartBps

\* C4: for the Hysteria sender constructed with any mbps, currentBps never
\* exceeds targetBps.
C4_RateAtMostTarget ==
    ctrl = "hysteria" => currentBps <= targetBps

\* C4, witness: the fourth ack of a sender built for 101 Mbps grew the rate
\* of 100 Mbps by 1.1 and the clamp cut it to targetBps.
C4_Witness ==
    /\ ctrl = "hysteria"
    /\ op.name = "OnPacketAcked"
    /\ rttCount = 0
    /\ stableBps < targetBps
    /\ (stableBps * 110) \div 100 > targetBps
    /\ currentBps = targetBps

\* C5 as stated: for every controller, TimeUntilSend called with
\* bytesInFlight >= the congestion window returns an instant far in the
\* future.
C5_StallWhenWindowFull ==
    (op.name = "TimeUntilSend" /\ op.inFlight >= GetCongestionWindow)
        => FarFuture(op.ret)

\* C5, amended: for the Hysteria sender, TimeUntilSend called with
\* bytesInFlight >= the congestion window returns the instant one hour from
\* now (the CUBIC sender does not read bytesInFlight and answers for its
\* pacer alone).
C5_HysteriaStallWhenWindowFull ==
    (ctrl = "hysteria" /\ op.name = "TimeUntilSend"
        /\ op.inFlight >= hysteriaSender_GetCongestionWindow)
        => op.ret = now + Hour

\* C5, witness: the Hysteria sender was asked with a full window and
\* answered one hour from now.
C5_Witness ==
    /\ ctrl = "hysteria"
    /\ op.name = "TimeUntilSend"
    /\ op.inFlight >= hysteriaSender_GetCongestionWindow
    /\ op.ret = now + Hour

\* C6: for every controller, SetMaxDatagramSize(s) with s smaller than the
\* current max datagram size aborts and never installs the smaller size: the
\* max datagram size never decreases.
C6_SmallerSizeAborts ==
    [][(op'.name = "SetMaxDatagramSize" /\ op'.bytes < MaxDatagramSize)
          => (status' = "panicked" /\ MaxDatagramSize' = MaxDatagramSize)]_vars

\* What OnCongestionEvent leaves alone when it is a no-op on the controller:
\* window, ssthresh, largestSentAtLastCutback, the ack counter, and the
\* recorder.
LossIsNoOp ==
    UNCHANGED <<congestionWindow, slowStartThreshold, largestSentAtLastCutback,
                numAckedPackets, events, lastState>>

\* C7 as stated: for the CUBIC sender, if before an OnCongestionEvent call
\* BytesSent > 0 and BytesLost/BytesSent < 0.10, the call is a no-op on the
\* controller, whatever lostBytes and packetNumber are.
C7_NoOpUnderToleranceBefore ==
    [][(/\ ctrl = "cubic"
        /\ op'.name = "OnCongestionEvent"
        /\ connStats.BytesSent > 0
        /\ 10 * connStats.BytesLost < connStats.BytesSent)
          => LossIsNoOp]_vars

\* C7, amended: for the CUBIC sender, if BytesSent > 0 and, with the
\* lostBytes of this OnCongestionEvent call added to BytesLost,
\* BytesLost/BytesSent < 0.10, the call is a no-op on the controller.
C7_NoOpUnderToleranceAfter ==
    [][(/\ ctrl = "cubic"
        /\ op'.name = "OnCongestionEvent"
        /\ connStats.BytesSent > 0
        /\ 10 * (connStats.BytesLost + op'.bytes) < connStats.BytesSent)
          => LossIsNoOp]_vars

\* C7, witness: a loss of a packet sent after the last cutback was reported
\* with the counters, this loss included, under the tolerance.
C7_Witness ==
    /\ ctrl = "cubic"
    /\ op.name = "OnCongestionEvent"
    /\ op.pn > largestSentAtLastCutback
    /\ connStats.BytesSent > 0
    /\ connStats.BytesLost >= op.bytes
    /\ 10 * connStats.BytesLost < connStats.BytesSent

\* C8: for the CUBIC sender, once a cutback has recorded
\* largestSentAtLastCutback = L, an OnCongestionEvent with packet number <= L
\* leaves window and ssthresh unchanged.
C8_OneCutbackPerWindow ==
    [][(/\ ctrl = "cubic"
        /\ op'.name = "OnCongestionEvent"
        /\ op'.pn <= largestSentAtLastCutback)
          => UNCHANGED <<congestionWindow, slowStartThreshold>>]_vars

\* C8, witness: with no bytes counted as sent (the tolerance test is off),
\* two packets were sent and both reported lost, nothing else: the first
\* report cut the window and recorded the largest sent packet, the second was
\* for a packet not above it.
C8_Witness ==
    /\ ctrl = "cubic"
    /\ op.name = "OnCongestionEvent"
    /\ calls = 4
    /\ connStats.BytesSent = 0
    /\ connStats.PacketsLost = 2
    /\ largestSentAtLastCutback = 1
    /\ op.pn <= largestSentAtLastCutback

\* What an ack that marks the curve application-limited leaves: the window
\* as it was, the curve's epoch reset, and the recorder (if any) in the
\* application-limited state.
MarkedApplicationLimited ==
    /\ congestionWindow' = congestionWindow
    /\ cubic'.epoch = 0
    /\ qlogger => lastState' = "application_limited"

\* C9 as stated: for the CUBIC sender, any OnPacketAcked with
\* priorInFlight = 0, in any reachable state, marks the curve
\* application-limited and leaves the congestion window unchanged.
C9_IdleAckMarksAppLimited ==
    [][(/\ ctrl = "cubic"
        /\ op'.name = "OnPacketAcked"
        /\ op'.inFlight = 0)
          => MarkedApplicationLimited]_vars

\* C9, amended: for the CUBIC sender, an OnPacketAcked with priorInFlight = 0
\* that does not find the sender in recovery, with a congestion window above
\* maxBurstPackets (3) max datagram sizes, marks the curve
\* application-limited and leaves the congestion window unchanged.
C9_IdleAckAboveBurstMarksAppLimited ==
    [][(/\ ctrl = "cubic"
        /\ op'.name = "OnPacketAcked"
        /\ op'.inFlight = 0
        /\ ~InRecoveryWith(Max(op'.pn, largestAckedPacketNumber))
        /\ congestionWindow > maxBurstPackets * maxDatagramSize)
          => MarkedApplicationLimited]_vars

\* C9, witness: an ack with priorInFlight = 0 in slow start, out of recovery,
\* left the recorder in the application-limited state.
C9_Witness ==
    /\ ctrl = "cubic"
    /\ op.name = "OnPacketAcked"
    /\ op.inFlight = 0
    /\ ~cubicSender_InRecovery
    /\ cubicSender_InSlowStart
    /\ congestionWindow > maxBurstPackets * maxDatagramSize
    /\ lastState = "application_limited"
    /\ cubic.epoch = 0

\* C10: for the CUBIC sender, the recorded events never contain two
\* consecutive events with the same congestion state (the initial slow-start
\* event counts as the first).
C10_NoRepeatedEvent ==
    Len(events) = 2 => events[1] # events[2]

\* C10, witness: an ack grew the window in slow start, and the recorder still
\* holds the initial slow-start event alone.
C10_Witness ==
    /\ ctrl = "cubic"
    /\ qlogger
    /\ op.name = "OnPacketAcked"
    /\ congestionWindow > initialCongestionWindowBytes
    /\ events = <<"slow_start">>

\* What the minimum-rate protection of the CUBIC sender guarantees: 5 Mbps
\* (minBandwidthLimit bits per second) for a smoothed RTT, 100 ms when there
\* is no sample, in whole bytes, and at least two datagrams.
MinRateFloor ==
    Max(2 * maxDatagramSize,
        MulDiv(minBandwidthLimit,
               IF rttStats.smoothed = 0 THEN 100 * Millisecond ELSE rttStats.smoothed,
               8 * Second))

\* Whether an OnCongestionEvent(pn, lostBytes, ...) made now cuts the window:
\* the packet was sent after the last cutback and the loss, this one
\* included, is not under the tolerance.
CutsBack(pn, lostBytes) ==
    /\ pn > largestSentAtLastCutback
    /\ ~(/\ connStats.BytesSent > 0
         /\ 10 * (connStats.BytesLost + lostBytes) < connStats.BytesSent)

\* C11: for the CUBIC sender, right after OnRetransmissionTimeout(true) and
\* right after a loss cutback in OnCongestionEvent, the window is at least
\* max(2 * maxDatagramSize, 5 Mbps * smoothedRTT / 8), with 100 ms for a
\* smoothed RTT of zero.
C11_WindowAtLeastRateFloor ==
    [][(/\ ctrl = "cubic"
        /\ \/ op'.name = "OnRetransmissionTimeout" /\ op'.flag
           \/ op'.name = "OnCongestionEvent" /\ CutsBack(op'.pn, op'.bytes))
          => congestionWindow' >= MinRateFloor]_vars

\* C11, witness: an OnRetransmissionTimeout(true) with a smoothed RTT sample
\* left the window on the 5 Mbps floor, above two datagrams.
C11_Witness ==
    /\ ctrl = "cubic"
    /\ op.name = "OnRetransmissionTimeout"
    /\ op.flag
    /\ rttStats.smoothed > 0
    /\ congestionWindow = MinRateFloor
    /\ congestionWindow > 2 * maxDatagramSize

\* The calls on the controller (the other steps are the connection's own).
ControllerCalls ==
    {"OnPacketSent", "OnPacketAcked", "OnCongestionEvent", "OnRetransmissionTimeout",
     "OnConnectionMigration", "MaybeExitSlowStart", "SetMaxDatagramSize",
     "TimeUntilSend"}

\* C12 as stated: for the CUBIC sender, no controller operation changes the
\* connection counters BytesSent, BytesLost, PacketsLost.
C12_CountersOnlyRead ==
    [][(ctrl = "cubic" /\ op'.name \in ControllerCalls)
          => UNCHANGED connStats]_vars

\* C12, amended: for the CUBIC sender, no controller operation changes
\* BytesSent, and none but OnCongestionEvent changes BytesLost or
\* PacketsLost; every OnCongestionEvent call adds 1 to PacketsLost and its
\* lostBytes to BytesLost.
C12_OnlyLossEventCounts ==
    [][(ctrl = "cubic" /\ op'.name \in ControllerCalls)
          => IF op'.name = "OnCongestionEvent"
                THEN connStats' = [connStats EXCEPT
                                      !.PacketsLost = @ + 1,
                                      !.BytesLost = @ + op'.bytes]
                ELSE UNCHANGED connStats]_vars

\* C12, witness: an OnCongestionEvent that did not touch the window (the
\* loss is under the tolerance) has counted its packet and its bytes.
C12_Witness ==
    /\ ctrl = "cubic"
    /\ op.name = "OnCongestionEvent"
    /\ connStats.BytesSent > 0
    /\ connStats.PacketsLost = 1
    /\ connStats.BytesLost = op.bytes
    /\ congestionWindow = initialCongestionWindowBytes
    /\ largestSentAtLastCutback = InvalidPacketNumber

\* C13: for the CUBIC sender in slow start, not in recovery, with the window
\* below the maximum and priorInFlight equal to the window, every
\* OnPacketAcked grows the window by exactly one max datagram size, whatever
\* ackedBytes is (so 32 such acks take 32 * 1200 to 64 * 1200).
C13_SlowStartGrowsOneDatagram ==
    [][(/\ ctrl = "cubic"
        /\ op'.name = "OnPacketAcked"
        /\ cubicSender_InSlowStart
        /\ ~cubicSender_InRecovery
        /\ congestionWindow < cubicSender_maxCongestionWindow
        /\ op'.inFlight = congestionWindow)
          => congestionWindow' = congestionWindow + maxDatagramSize]_vars

\* C13, witness: from the initial window, two acks with priorInFlight equal
\* to the window, the last one of half a packet, left 34 datagrams.
C13_Witness ==
    /\ ctrl = "cubic"
    /\ op.name = "OnPacketAcked"
    /\ op.bytes # InitialPacketSize
    /\ calls = 4
    /\ nextPacketNumber = 2
    /\ outstanding = {}
    /\ cubicSender_InSlowStart
    /\ congestionWindow = (initialCongestionWindow + 2) * InitialPacketSize

\* C14: for the CUBIC sender, after a cutback that recorded
\* largestSentAtLastCutback = L, until a packet number above L has been
\* acked (or an RTO or a migration has reset L), an OnPacketAcked leaves
\* window and ssthresh unchanged.
C14_NoGrowthInRecovery ==
    [][(/\ ctrl = "cubic"
        /\ op'.name = "OnPacketAcked"
        /\ op'.pn <= largestSentAtLastCutback
        /\ largestAckedPacketNumber <= largestSentAtLastCutback)
          => UNCHANGED <<congestionWindow, slowStartThreshold>>]_vars

\* C14, witness: an ack with priorInFlight equal to the window, of a packet
\* sent before the last cutback, found the sender in recovery.
C14_Witness ==
    /\ ctrl = "cubic"
    /\ op.name = "OnPacketAcked"
    /\ op.inFlight = congestionWindow
    /\ op.pn <= largestSentAtLastCutback
    /\ cubicSender_InRecovery
    /\ congestionWindow < cubicSender_maxCongestionWindow

\* C18: for the Hysteria sender, after every OnPacketSent (that returns) at
\* time now, nextSendTime is min(max(now, previous nextSendTime)
\* + bytes * 1s / currentBps, now + max(20 ms, latestRTT / 2)).
C18_NextSendTimeAfterSend ==
    [][(ctrl = "hysteria" /\ op'.name = "OnPacketSent" /\ status' = "running")
          => nextSendTime' =
                Min(Max(now, nextSendTime) + ((op'.bytes * Second) \div currentBps),
                    now + Max(20 * Millisecond, rttStats.latest \div 2))]_vars

\* C18, witness: a send found nextSendTime ahead of now and was held to the
\* burst limit now + max(20 ms, latestRTT / 2).
C18_Witness ==
    /\ ctrl = "hysteria"
    /\ op.name = "OnPacketSent"
    /\ nextPacketNumber >= 3
    /\ nextSendTime = now + Max(20 * Millisecond, rttStats.latest \div 2)

\* C19 as stated: for the CUBIC sender, after any OnCongestionEvent and any
\* OnRetransmissionTimeout the window is at most the window before the call.
C19_ResponseNeverEnlarges ==
    [][(/\ ctrl = "cubic"
        /\ op'.name \in {"OnCongestionEvent", "OnRetransmissionTimeout"})
          => congestionWindow' <= congestionWindow]_vars

\* C19, amended: for the CUBIC sender, after any OnCongestionEvent and any
\* OnRetransmissionTimeout the window is at most the larger of the window
\* before the call and the minimum-rate floor
\* max(2 * maxDatagramSize, 5 Mbps * smoothedRTT / 8).
C19_ResponseEnlargesToFloorOnly ==
    [][(/\ ctrl = "cubic"
        /\ op'.name \in {"OnCongestionEvent", "OnRetransmissionTimeout"})
          => congestionWindow' <= Max(congestionWindow, MinRateFloor)]_vars

\* C19, witness: a cutback with a smoothed RTT sample left the window under
\* the initial window and above the floor: the response shrank the window.
C19_Witness ==
    /\ ctrl = "cubic"
    /\ op.name = "OnCongestionEvent"
    /\ largestSentAtLastCutback = op.pn
    /\ congestionWindow < initialCongestionWindowBytes
    /\ congestionWindow > MinRateFloor
    /\ slowStartThreshold = congestionWindow

\* --------------------------------------------------------- the rate on acks

\* The jitter condition of updateRTTAndCheckJitter.
JitterCondition ==
    /\ rttStats.latest > 0
    /\ rttStats.smoothed > 20 * Millisecond
    /\ rttStats.latest > rttStats.smoothed * 2

\* 0.85 of the rate, floored at 1 Mbps/8.
JitterCut == Max((currentBps * 85) \div 100, minStartBps)

\* The growth factor of the RTT, in percent.
GrowFactor100 == IF rttStats.smoothed > 150 * Millisecond THEN 125 ELSE 110

\* A rate multiplied by the growth factor and clamped to targetBps.
Grown(bps) == Min(targetBps, (bps * GrowFactor100) \div 100)

AckedByHysteria == op'.name = "OnPacketAcked" /\ ctrl = "hysteria"

\* C15 as stated: every OnPacketAcked of the Hysteria sender made under the
\* jitter condition leaves currentBps = max(floor(0.85 * currentBps before),
\* 1 Mbps/8), whatever rttCount and targetBps are.
C15_JitterCutIsFinalRate ==
    [][(AckedByHysteria /\ JitterCondition) => currentBps' = JitterCut]_vars

\* C15, amended: under the jitter condition an OnPacketAcked leaves the cut
\* rate max(floor(0.85 * currentBps), 1 Mbps/8) unless it is the fourth ack
\* of the cadence (rttCount = 3 before the call) and the cut rate is below
\* targetBps; then it leaves the cut rate times the growth factor, clamped to
\* targetBps.
C15_JitterCutThenGrowth ==
    [][(AckedByHysteria /\ JitterCondition)
          => currentBps' = IF rttCount = 3 /\ JitterCut < targetBps
                              THEN Grown(JitterCut) ELSE JitterCut]_vars

\* The fourth ack of a cadence arrived under the jitter condition and left a
\* rate below targetBps: the cut rate was multiplied.
C15_Witness ==
    /\ ctrl = "hysteria"
    /\ op.name = "OnPacketAcked"
    /\ JitterCondition
    /\ rttCount = 0
    /\ penalty = NoPenalty
    /\ minStartBps < currentBps
    /\ currentBps < targetBps

\* ------------------------------------------------------ the penalty interval

LossAboveThreshold ==
    /\ op'.name = "OnCongestionEvent"
    /\ ctrl = "hysteria"
    /\ hysteria_lossAboveThreshold(op'.bytes, op'.inFlight)

\* The ack arriving is one on which the cadence of four acks that the last
\* above-threshold loss interrupted (at rttCount = penalty.pre >= 0) has its
\* first or second growth tick.
WouldHaveGrown ==
    /\ penalty.acks >= 0
    /\ penalty.pre >= 0
    /\ penalty.pre + penalty.acks + 1 \in {4, 8}

\* C16: after an OnCongestionEvent of the Hysteria sender with a loss rate
\* above the threshold, currentBps = floor(0.75 * stableBps) and rttCount = -2,
\* and the two next acks on which the every-4-acks cadence would have
\* multiplied the rate do not increase currentBps (here: not even outside the
\* jitter condition, where only the growth step writes the rate).
C16_PenaltySkipsTwoGrowthTicks ==
    [][/\ LossAboveThreshold
            => (currentBps' = (stableBps * 75) \div 100 /\ rttCount' = -2)
       /\ (AckedByHysteria /\ WouldHaveGrown /\ ~JitterCondition)
            => currentBps' <= currentBps]_vars

\* ------------------------------------------------------- the growth cadence

\* The rate the jitter suppression of an ack leaves, before the growth step.
AfterJitter == IF JitterCondition THEN JitterCut ELSE currentBps

C20_RateAlwaysPositive ==
    ctrl = "hysteria" => (currentBps > 0 /\ status = "running")

\* C21: an OnCongestionEvent of the Hysteria sender never increases the
\* sending rate: currentBps after the call is at most currentBps before it,
\* also after a timeout or the jitter suppression lowered currentBps below
\* stableBps.
C21_LossNeverRaisesRate ==
    [][(op'.name = "OnCongestionEvent" /\ ctrl = "hysteria")
          => currentBps' <= currentBps]_vars

\* C22: from every state the Hysteria sender reaches, if acks keep arriving
\* and no congestion event, timeout or jitter condition occurs any more,
\* currentBps eventually reaches targetBps.
C22_RateReachesTarget ==
    (ctrl = "hysteria" /\ op.name = "OnPacketAcked") ~> (currentBps >= targetBps)

====
